---- MODULE Spec2Model ----
(***************************************************************************)
(* GroundPolylinePrimitive (Source/Scene/GroundPolylinePrimitive.js):      *)
(* decomposition of polyline geometry instances into wall segments, the    *)
(* id -> [first,last] index, and the per-id InstanceAttributeSynchronizer  *)
(* over the batch table of the underlying Primitive.                       *)
(*                                                                         *)
(* JavaScript values are modelled as follows.                              *)
(*  - an array of numbers is a sequence; a.length is Len(a); JS index j is *)
(*    TLA+ index j+1.  Segment indices keep their JS (0-based) values.     *)
(*  - a value held by the batch table is [kind, c]: kind "number" for a    *)
(*    bare scalar, "Cartesian2/3/4" for a vector; c its components.        *)
(*  - the outcome of a call is [tag, v]: tag "value", "undefined" or       *)
(*    "throw".                                                             *)
(***************************************************************************)
EXTENDS Integers, Sequences, FiniteSets, TLC

\* ------------------------------------------------------------------ bounds
MaxLines == 2
MaxTriples == 3
MaxSetCalls == 1
MaxLength == 2
MaxComponents == 5
MaxFrames == 2
MaxTime == 1

\* --------------------------------------------------------- program values
Ids == {"a", "b"}
\* ids a caller may ask for: the supplied ones and one never supplied
QueryIds == Ids \cup {"nonexistent-id"}

\* createWallVertices failing (no usable path, non-positive width)
WallFails == -1

\* ComponentDatatype.UNSIGNED_BYTE holds 0 .. 255
UnsignedByteRange == 256

\* attribute names the batch declares, with their batch table index
batchTableAttributeIndices ==
    [color |-> 0, width |-> 1, startDistance |-> 2,
     segmentLength |-> 3, totalLength |-> 4]

AttributeNames == DOMAIN batchTableAttributeIndices

AttributeIndices == {batchTableAttributeIndices[n] : n \in AttributeNames}

NameOf(a) == CHOOSE n \in AttributeNames : batchTableAttributeIndices[n] = a

\* batchTable.attributes[attributeIndex]: component type and arity
BatchTableAttributes ==
    [color |-> [componentDatatype |-> "UNSIGNED_BYTE", componentsPerAttribute |-> 4],
     width |-> [componentDatatype |-> "UNSIGNED_BYTE", componentsPerAttribute |-> 1],
     startDistance |-> [componentDatatype |-> "FLOAT", componentsPerAttribute |-> 1],
     segmentLength |-> [componentDatatype |-> "FLOAT", componentsPerAttribute |-> 1],
     totalLength |-> [componentDatatype |-> "FLOAT", componentsPerAttribute |-> 1]]

Number(x) == [kind |-> "number", c |-> <<x>>]

\* the colour every segment starts with in the batch table
DefaultColor == [kind |-> "Cartesian4", c |-> <<255, 255, 255, 255>>]

\* --------------------------------------------------------------- variables
VARIABLES
    polylineGeometryInstances,  \* [defined, list]: this.polylineGeometryInstances
    releaseGeometryInstances,   \* this.releaseGeometryInstances
    primitive,                  \* this._primitive: "undefined" | "created" | "batched"
    primitiveOptions,           \* this._primitiveOptions.geometryInstances
    batchTable,                 \* this._primitive._batchTable: segment index -> name -> value
    ready,                      \* this._ready
    readyFired,                 \* the readyPromise callback has run
    idsToInstanceIndices,       \* this._idsToInstanceIndices: id -> <<first, last>>
    attributeSynchronizerCache, \* this._attributeSynchronizerCache: id -> synchronizer
    destroyed,                  \* destroy() has run
    pc,                         \* position inside update: "idle" | "decomposing"
    loopIndex,                  \* update's loop variable i (as a TLA+ index)
    polylineSegmentInstances,   \* update's local array while decomposing
    lastCall,                   \* the last call made and what it returned
    setCalls,                   \* number of set calls made
    constructed,                \* id -> number of synchronizers constructed
    handedOut,                  \* id -> synchronizers returned to callers
    readyPromise,               \* this._readyPromise
    codecValue,                 \* the raw components and attribute given to the codec
    codecResult,                \* what the codec made of them
    writers,                    \* the set functions in progress, each with its loop variable i
    show,                       \* PointCloudStream: this.show
    index,                      \* PointCloudStream: this.index
    frames,                     \* PointCloudStream: this._frames, key -> frame
    pickId,                     \* PointCloudStream: this._pickId
    loadTimestamp,              \* PointCloudStream: this._loadTimestamp, <<>> when undefined
    pickIdsCreated,             \* number of calls of context.createPickId
    lastStream                  \* the stream's last call and the frames it updated

vars == <<polylineGeometryInstances, releaseGeometryInstances, primitive,
          primitiveOptions, batchTable, ready, readyFired, idsToInstanceIndices,
          attributeSynchronizerCache, destroyed, pc, loopIndex,
          polylineSegmentInstances, lastCall, setCalls, constructed, handedOut,
          readyPromise, codecValue, codecResult, writers,
          show, index, frames, pickId, loadTimestamp, pickIdsCreated, lastStream>>

\* ------------------------------------------------------------ input lines
RECURSIVE Sum(_)
Sum(s) == IF s = <<>> THEN 0 ELSE Head(s) + Sum(Tail(s))

\* number of segments the walk of line 148 makes over verticesLength entries
RECURSIVE LoopCount(_, _)
LoopCount(i, verticesLength) ==
    IF i < verticesLength - 3 THEN 1 + LoopCount(i + 3, verticesLength) ELSE 0

\* a geometry instance: id, what createWallVertices yields (the length of
\* rightFacingNormals, or WallFails), the bottom length of each segment,
\* geometry.lengthOnEllipsoid and geometry.width
Line(id, wall, lens, total, width) ==
    [id |-> id, wall |-> wall, lens |-> lens,
     lengthOnEllipsoid |-> total, width |-> width]

UnitLens(wall) ==
    IF wall = WallFails THEN <<>> ELSE [k \in 1..LoopCount(0, wall) |-> 1]

\* lines with unit segments whose total is the sum of the segment lengths:
\* the shortest wall (one triple, no segment) and the longest one, under
\* either id, and a line whose wall fails (its id is never read)
PlainLines ==
    {Line(id, wall, UnitLens(wall), Sum(UnitLens(wall)), 2) :
        id \in Ids, wall \in {3, 3 * MaxTriples}}
    \cup {Line("a", WallFails, <<>>, 0, 2)}

\* widths a line may have
Widths == {2, 300}

\* the lines a decomposition may meet: any wall of up to MaxTriples triples,
\* any bottom length up to MaxLength for each segment, a length on the
\* ellipsoid that is or is not the sum of the bottom lengths
DetailedLines ==
    {Line("a", WallFails, <<>>, 0, 2)} \cup
    UNION {
        {Line(id, 3 * t, lens, Sum(lens) + d, w) :
            id \in Ids, d \in {0, 1}, w \in Widths,
            lens \in [1..LoopCount(0, 3 * t) -> 0..MaxLength]} :
        t \in 0..MaxTriples}

\* the lists of at most MaxLines lines; ids are interchangeable, so the
\* first line's id is "a"
ListsOf(S) ==
    {l \in UNION {[1..n -> S] : n \in 0..MaxLines} : l # <<>> => l[1].id = "a"}

\* ------------------------------------------------------------- decompose
\* GroundLineGeometry.fromArrays(i, ...).segmentBottomLength
segmentBottomLength(line, i) ==
    IF (i \div 3) + 1 \in DOMAIN line.lens THEN line.lens[(i \div 3) + 1] ELSE 0

\* GroundLineGeometry.getAttributes(geometry, lengthSoFar, segmentLength, totalLength)
getAttributes(lengthSoFar, segmentLength, totalLength) ==
    [startDistance |-> lengthSoFar, segmentLength |-> segmentLength,
     totalLength |-> totalLength]

\* as widthAttribute, holding a value one above the line's width
widthAttributeOffByOne(line) ==
    [componentDatatype |-> "UNSIGNED_BYTE", componentsPerAttribute |-> 1,
     normalize |-> FALSE, value |-> <<line.width + 1>>]

\* the width attribute of lines 154-159
widthAttribute(line) ==
    [componentDatatype |-> "UNSIGNED_BYTE", componentsPerAttribute |-> 1,
     normalize |-> FALSE, value |-> <<line.width>>]

\* as segmentInstance, with lengthSoFar advanced before the attributes are made
segmentInstanceAdvanced(line, k, i, lengthSoFar) ==
    [id |-> line.id,
     geometry |-> [line |-> k, offset |-> i],
     attributes |-> getAttributes(lengthSoFar + segmentBottomLength(line, i),
                                  segmentBottomLength(line, i),
                                  line.lengthOnEllipsoid),
     width |-> widthAttribute(line)]

\* one pass of the loop body, lines 149-165: the segment made at offset i
\* of line number k, with lengthSoFar as it is when getAttributes is called
segmentInstance(line, k, i, lengthSoFar) ==
    [id |-> line.id,
     geometry |-> [line |-> k, offset |-> i],
     attributes |-> getAttributes(lengthSoFar, segmentBottomLength(line, i),
                                  line.lengthOnEllipsoid),
     width |-> widthAttribute(line)]

\* as loopContinues, walking up to the last triple
loopContinuesToEnd(i, verticesLength) == i < verticesLength

\* the loop test of line 148
loopContinues(i, verticesLength) == i < verticesLength - 3

\* as lengthSoFarNext, leaving lengthSoFar as it was
lengthSoFarKept(lengthSoFar, segmentLength) == lengthSoFar

\* line 152: lengthSoFar += segmentLength
lengthSoFarNext(lengthSoFar, segmentLength) == lengthSoFar + segmentLength

\* the loop of lines 148-166, from offset i on
RECURSIVE decomposeLoop(_, _, _, _, _)
decomposeLoop(line, k, i, lengthSoFar, out) ==
    IF loopContinues(i, line.wall)
    THEN decomposeLoop(line, k, i + 3,
                       lengthSoFarNext(lengthSoFar, segmentBottomLength(line, i)),
                       Append(out, segmentInstance(line, k, i, lengthSoFar)))
    ELSE out

\* as recordedRange, counting the range from the start of the array
recordedRangeFromZero(segmentIndicesStart, out) == <<0, Len(out) - 1>>

\* the range recorded by line 167 (0-based, inclusive)
recordedRange(segmentIndicesStart, out) == <<segmentIndicesStart, Len(out) - 1>>

\* a map with key k set to v (obj[k] = v)
Assign(obj, k, v) == [x \in DOMAIN obj \cup {k} |-> IF x = k THEN v ELSE obj[x]]

EmptyObject == [x \in {} |-> 0]

\* no set function is in progress
NoWriters == [base |-> EmptyObject, w |-> <<>>]

\* JavaScript values a caller may pass to a setter
Undefined == [kind |-> "undefined", c |-> <<>>]
Array(c) == [kind |-> "array", c |-> c]

\* a call and its outcome; hit: the synchronizer returned came from the cache
\* id: the id asked for, for getGeometryInstanceAttributes; arg: the value
\* given to a setter
NoCall == [op |-> "none", id |-> "", ret |-> "", hit |-> FALSE, arg |-> <<>>]

Call(op, ret) == [NoCall EXCEPT !.op = op, !.ret = ret]

\* ------------------------------------------------------------- batch table
\* the batch table the Primitive builds from the segments it was given
initialAttribute(segment, name) ==
    CASE name = "color" -> DefaultColor
      [] name = "width" -> Number(segment.width.value[1])
      [] OTHER -> Number(segment.attributes[name])

createBatchTable(segments) ==
    [j \in 0..(Len(segments) - 1) |->
        [a \in AttributeIndices |-> initialAttribute(segments[j + 1], NameOf(a))]]

\* this._primitive.update(frameState): the Primitive may build its batch
\* table during any update
primitiveAfterUpdate(built) ==
    IF built \/ primitive = "batched" THEN "batched" ELSE "created"

batchTableAfterUpdate(built, segments) ==
    IF primitive # "batched" /\ built THEN createBatchTable(segments) ELSE batchTable

\* ------------------------------------------------------------------ update
callVars == <<setCalls, constructed, handedOut>>
codecVars == <<codecValue, codecResult>>
streamVars == <<show, index, frames, pickId, loadTimestamp, pickIdsCreated, lastStream>>
syncVars == <<idsToInstanceIndices, attributeSynchronizerCache>>

\* lines 171-173: nothing built and nothing to build
updateReturn ==
    /\ pc = "idle" /\ ~destroyed
    /\ primitive = "undefined" /\ ~polylineGeometryInstances.defined
    /\ lastCall' = Call("update", "return")
    /\ UNCHANGED streamVars
    /\ UNCHANGED <<codecVars, writers, readyPromise>>
    /\ UNCHANGED <<polylineGeometryInstances, releaseGeometryInstances, primitive,
                   primitiveOptions, batchTable, ready, readyFired, syncVars,
                   destroyed, pc, loopIndex, polylineSegmentInstances, callVars>>

\* as primitiveMissing, asking for the Primitive's batch table
primitiveMissingOrUnbatched == primitive # "batched"

\* line 191: !defined(this._primitive)
primitiveMissing == primitive = "undefined"

\* lines 191-199: the first update with geometry instances starts decomposing
updateBegin ==
    /\ pc = "idle" /\ ~destroyed
    /\ primitiveMissing /\ polylineGeometryInstances.defined
    /\ pc' = "decomposing"
    /\ loopIndex' = 1
    /\ polylineSegmentInstances' = <<>>
    /\ lastCall' = Call("update", "running")
    /\ UNCHANGED streamVars
    /\ UNCHANGED <<codecVars, writers, readyPromise>>
    /\ UNCHANGED <<polylineGeometryInstances, releaseGeometryInstances, primitive,
                   primitiveOptions, batchTable, ready, readyFired, syncVars,
                   destroyed, callVars>>

\* lines 200-205 with decompose (132-168): one geometry instance.  When
\* createWallVertices fails the exception leaves decompose and update.
updateDecompose ==
    /\ pc = "decomposing"
    /\ loopIndex <= Len(polylineGeometryInstances.list)
    /\ LET line == polylineGeometryInstances.list[loopIndex]
           out == decomposeLoop(line, loopIndex, 0, 0, polylineSegmentInstances)
       IN IF line.wall = WallFails
          THEN /\ pc' = "idle"
               /\ loopIndex' = 0
               /\ polylineSegmentInstances' = <<>>
               /\ lastCall' = Call("update", "throw")
               /\ UNCHANGED idsToInstanceIndices
          ELSE /\ polylineSegmentInstances' = out
               /\ idsToInstanceIndices' =
                      Assign(idsToInstanceIndices, line.id,
                             recordedRange(Len(polylineSegmentInstances), out))
               /\ loopIndex' = loopIndex + 1
               /\ UNCHANGED <<pc, lastCall>>
    /\ UNCHANGED streamVars
    /\ UNCHANGED <<codecVars, writers, readyPromise>>
    /\ UNCHANGED <<polylineGeometryInstances, releaseGeometryInstances, primitive,
                   primitiveOptions, batchTable, ready, readyFired,
                   attributeSynchronizerCache, destroyed, callVars>>

\* lines 207-228: the Primitive is created over the segments and updated
updateCreate ==
    /\ pc = "decomposing"
    /\ loopIndex > Len(polylineGeometryInstances.list)
    /\ \E built \in BOOLEAN :
          /\ primitive' = primitiveAfterUpdate(built)
          /\ batchTable' = batchTableAfterUpdate(built, polylineSegmentInstances)
    /\ primitiveOptions' = polylineSegmentInstances
    /\ polylineSegmentInstances' = <<>>
    /\ pc' = "idle"
    /\ loopIndex' = 0
    /\ lastCall' = Call("update", "return")
    /\ UNCHANGED streamVars
    /\ UNCHANGED <<codecVars, writers, readyPromise>>
    /\ UNCHANGED <<polylineGeometryInstances, releaseGeometryInstances, ready,
                   readyFired, syncVars, destroyed, callVars>>

\* lines 226-228 on a later update: forwarded to the existing Primitive
updateForward ==
    /\ pc = "idle" /\ ~destroyed
    /\ primitive # "undefined"
    /\ \E built \in BOOLEAN :
          /\ primitive' = primitiveAfterUpdate(built)
          /\ batchTable' = batchTableAfterUpdate(built, primitiveOptions)
    /\ lastCall' = Call("update", "return")
    /\ UNCHANGED streamVars
    /\ UNCHANGED <<codecVars, writers, readyPromise>>
    /\ UNCHANGED <<polylineGeometryInstances, releaseGeometryInstances,
                   primitiveOptions, ready, readyFired, syncVars, destroyed, pc,
                   loopIndex, polylineSegmentInstances, callVars>>

\* lines 218-223: that._readyPromise.resolve(that) or .reject(error).  Reading
\* a property of undefined throws a TypeError and nothing is settled.
settle(promise, error) ==
    IF promise = "undefined" THEN "undefined"
    ELSE IF error THEN "rejected" ELSE "resolved"

\* lines 211-224: the callback on the Primitive's readyPromise
readyCallback ==
    /\ pc = "idle" /\ ~destroyed
    /\ primitive # "undefined" /\ ~readyFired
    /\ ready' = TRUE
    /\ readyFired' = TRUE
    /\ polylineGeometryInstances' =
          IF releaseGeometryInstances
          THEN [defined |-> FALSE, list |-> <<>>]
          ELSE polylineGeometryInstances
    /\ \E error \in BOOLEAN : readyPromise' = settle(readyPromise, error)
    /\ UNCHANGED streamVars
    /\ UNCHANGED <<codecVars, writers>>
    /\ UNCHANGED <<releaseGeometryInstances, primitive, primitiveOptions, batchTable,
                   syncVars, destroyed, pc, loopIndex, polylineSegmentInstances,
                   lastCall, callVars>>

\* lines 235-245
destroy ==
    /\ pc = "idle" /\ ~destroyed
    /\ destroyed' = TRUE
    /\ primitive' = "undefined"
    /\ batchTable' = EmptyObject
    /\ idsToInstanceIndices' = EmptyObject
    /\ attributeSynchronizerCache' = EmptyObject
    /\ lastCall' = Call("destroy", "throw")
    /\ UNCHANGED streamVars
    /\ UNCHANGED <<codecVars, writers, readyPromise>>
    /\ UNCHANGED <<polylineGeometryInstances, releaseGeometryInstances,
                   primitiveOptions, ready, readyFired, pc, loopIndex,
                   polylineSegmentInstances, callVars>>

\* ------------------------------------------------- attribute synchronizer
\* the names bound in the module's scope by define(), lines 1-36
ModuleScope ==
    {"Check", "ComponentDatatype", "defaultValue", "defined", "defineProperties",
     "GeometryInstance", "GeometryInstanceAttribute", "GroundPolylineGeometry",
     "GroundLineGeometry", "isArray", "PolylineShadowVolumeVS",
     "PolylineShadowVolumeFS", "RenderState", "GroundPrimitive", "Material",
     "MaterialAppearance", "Primitive"}

Throw == [tag |-> "throw", v |-> Undefined]
Value(v) == [tag |-> "value", v |-> v]
NoValue == [tag |-> "undefined", v |-> Undefined]

\* <type>.unpack(value, 0, scratch): a reference to a name that is not bound
\* in the module's scope throws a ReferenceError
unpack(type, value) ==
    IF type \in ModuleScope THEN Value([kind |-> type, c |-> value]) ELSE Throw

\* lines 264-275
getAttributeValue(value) ==
    LET componentsPerAttribute == Len(value) IN
    IF componentsPerAttribute = 1 THEN Value(Number(value[1]))
    ELSE IF componentsPerAttribute = 2 THEN unpack("Cartesian2", value)
    ELSE IF componentsPerAttribute = 3 THEN unpack("Cartesian3", value)
    ELSE IF componentsPerAttribute = 4 THEN unpack("Cartesian4", value)
    ELSE NoValue

\* batchTable.setBatchedAttribute(i, attributeIndex, value)
setBatchedAttribute(table, i, attributeIndex, value) ==
    IF i \in DOMAIN table
    THEN [tag |-> "return", table |-> [table EXCEPT ![i][attributeIndex] = value]]
    ELSE [tag |-> "throw", table |-> table]

\* batchTable.getBatchedAttribute(i, attributeIndex)
getBatchedAttribute(table, i, attributeIndex) ==
    IF i \in DOMAIN table THEN Value(table[i][attributeIndex]) ELSE Throw

\* as setLoopStart, starting at the first segment of the batch
setLoopStartZero(firstInstanceIndex) == 0

\* the first index the set loop of line 284 writes
setLoopStart(firstInstanceIndex) == firstInstanceIndex

\* the loop of lines 284-287, from index i on
RECURSIVE setLoop(_, _, _, _, _)
setLoop(table, i, lastInstanceIndex, attributeIndex, value) ==
    IF i <= lastInstanceIndex
    THEN LET attributeValue == getAttributeValue(value) IN
         IF attributeValue.tag = "throw"
         THEN [tag |-> "throw", table |-> table]
         ELSE LET r == setBatchedAttribute(table, i, attributeIndex, attributeValue.v) IN
              IF r.tag = "throw" THEN r
              ELSE setLoop(r.table, i + 1, lastInstanceIndex, attributeIndex, value)
    ELSE [tag |-> "return", table |-> table]

\* as invalidValue, testing only that the value is defined
invalidValueUndefinedOnly(value) == value.kind = "undefined"

\* the check of line 280
invalidValue(value) ==
    \/ value.kind = "undefined"
    \/ value.kind # "array"
    \/ Len(value.c) < 1
    \/ Len(value.c) > 4

\* lines 277-289: the function createSetFunction returns, applied to value
createSetFunction(table, firstInstanceIndex, lastInstanceIndex, attributeIndex, value) ==
    IF invalidValue(value)
    THEN [tag |-> "throw", table |-> table]
    ELSE setLoop(table, setLoopStart(firstInstanceIndex), lastInstanceIndex,
                 attributeIndex, value.c)

\* what a typed array of the component type keeps of a number stored in it
typedArrayStore(componentDatatype, x) ==
    IF componentDatatype = "UNSIGNED_BYTE" THEN x % UnsignedByteRange ELSE x

\* lines 295-302: the typed array of the attribute's component type and
\* arity, filled by the value's own pack, or at [0] for a bare number
pack(attribute, attributeValue) ==
    [j \in 1..attribute.componentsPerAttribute |->
        IF j \in DOMAIN attributeValue.c
           /\ (attributeValue.kind # "number" \/ j = 1)
        THEN typedArrayStore(attribute.componentDatatype, attributeValue.c[j])
        ELSE 0]

\* lines 291-304: the function createGetFunction returns, applied
createGetFunction(table, instanceIndex, attributeIndex) ==
    LET got == getBatchedAttribute(table, instanceIndex, attributeIndex)
        attribute == BatchTableAttributes[NameOf(attributeIndex)]
        attributeValue == got.v
    IN IF got.tag = "throw" THEN [tag |-> "throw", out |-> <<>>]
       ELSE [tag |-> "value", out |-> pack(attribute, attributeValue)]

\* lines 248-262: a synchronizer; id and serial stand for the object's identity
InstanceAttributeSynchronizer(id, serial, firstInstanceIndex, lastInstanceIndex) ==
    [id |-> id, serial |-> serial,
     firstInstanceIndex |-> firstInstanceIndex,
     lastInstanceIndex |-> lastInstanceIndex,
     properties |-> AttributeNames]

\* an id that is not defined
UndefinedId == "undefined"

\* as batchMissing, without the test of the batch table
batchMissingPrimitiveOnly == primitive = "undefined"

\* line 311
batchMissing == primitive = "undefined" \/ primitive # "batched"

\* as cacheHit, never finding the cached synchronizer
cacheMiss(id) == FALSE

\* lines 324-325: the cached synchronizer is kept when there is one
cacheHit(id) == id \in DOMAIN attributeSynchronizerCache

\* lines 306-331
getGeometryInstanceAttributes(id) ==
    /\ pc = "idle" /\ ~destroyed
    /\ IF id = UndefinedId \/ batchMissing
       THEN /\ lastCall' = [Call("getGeometryInstanceAttributes", "throw") EXCEPT !.id = id]
            /\ UNCHANGED <<attributeSynchronizerCache, constructed, handedOut>>
       ELSE IF id \notin DOMAIN idsToInstanceIndices
       THEN /\ lastCall' = [Call("getGeometryInstanceAttributes", "undefined") EXCEPT !.id = id]
            /\ UNCHANGED <<attributeSynchronizerCache, constructed, handedOut>>
       ELSE LET instanceIndices == idsToInstanceIndices[id]
                hit == cacheHit(id)
                attributeSynchronizer ==
                    IF hit THEN attributeSynchronizerCache[id]
                    ELSE InstanceAttributeSynchronizer(id, constructed[id] + 1,
                            instanceIndices[1], instanceIndices[2])
            IN /\ attributeSynchronizerCache' =
                      Assign(attributeSynchronizerCache, id, attributeSynchronizer)
               /\ constructed' =
                      IF hit THEN constructed
                      ELSE [constructed EXCEPT ![id] = @ + 1]
               /\ handedOut' = [handedOut EXCEPT ![id] = @ \cup {attributeSynchronizer}]
               /\ lastCall' = [Call("getGeometryInstanceAttributes", "synchronizer")
                                  EXCEPT !.id = id, !.hit = hit]
    /\ UNCHANGED streamVars
    /\ UNCHANGED <<codecVars, writers, readyPromise>>
    /\ UNCHANGED <<polylineGeometryInstances, releaseGeometryInstances, primitive,
                   primitiveOptions, batchTable, ready, readyFired,
                   idsToInstanceIndices, destroyed, pc, loopIndex,
                   polylineSegmentInstances, setCalls>>

\* values callers pass to a setter
SetValues ==
    {Array(<<7>>), Array(<<255, 0, 0, 255>>), Array(<<>>), Undefined,
     Array(<<1, 2, 3, 4, 5>>), Number(7)}

\* synchronizer[name] = value, on a synchronizer a caller holds
set(synchronizer, name, value) ==
    /\ pc = "idle" /\ ~destroyed
    /\ setCalls < MaxSetCalls
    /\ name \in synchronizer.properties
    /\ LET r == createSetFunction(batchTable, synchronizer.firstInstanceIndex,
                    synchronizer.lastInstanceIndex,
                    batchTableAttributeIndices[name], value)
       IN /\ batchTable' = r.table
          /\ lastCall' = [Call("set", r.tag) EXCEPT !.arg = <<value>>]
    /\ setCalls' = setCalls + 1
    /\ UNCHANGED streamVars
    /\ UNCHANGED <<codecVars, writers, readyPromise>>
    /\ UNCHANGED <<polylineGeometryInstances, releaseGeometryInstances, primitive,
                   primitiveOptions, ready, readyFired, syncVars, destroyed, pc,
                   loopIndex, polylineSegmentInstances, constructed, handedOut>>

\* synchronizer[name], on a synchronizer a caller holds
get(synchronizer, name) ==
    /\ pc = "idle" /\ ~destroyed
    /\ name \in synchronizer.properties
    /\ LET r == createGetFunction(batchTable, synchronizer.firstInstanceIndex,
                    batchTableAttributeIndices[name])
       IN lastCall' = Call("get", r.tag)
    /\ UNCHANGED streamVars
    /\ UNCHANGED <<codecVars, writers, readyPromise>>
    /\ UNCHANGED <<polylineGeometryInstances, releaseGeometryInstances, primitive,
                   primitiveOptions, batchTable, ready, readyFired, syncVars,
                   destroyed, pc, loopIndex, polylineSegmentInstances, callVars>>

HeldSynchronizers == UNION {handedOut[id] : id \in Ids}

\* ------------------------------------------------------------ the codec
\* components a raw array may hold: two that an unsigned byte holds and one
\* that it does not
CodecComponents == {0, 255, 300}

ComponentDatatypes == {"UNSIGNED_BYTE", "FLOAT"}

\* raw arrays of up to MaxComponents components, with the component type of
\* the attribute they are read back into
CodecInputs ==
    [raw : UNION {[1..n -> CodecComponents] : n \in 0..MaxComponents},
     componentDatatype : ComponentDatatypes]

NoCodecResult == [stage |-> "none", value |-> NoValue, out |-> <<>>]

\* the setter's conversion (line 285): getAttributeValue(value)
codecConvert ==
    /\ codecResult.stage = "none"
    /\ codecResult' = [stage |-> "converted",
                       value |-> getAttributeValue(codecValue.raw),
                       out |-> <<>>]
    /\ UNCHANGED streamVars
    /\ UNCHANGED <<codecValue, writers, readyPromise>>
    /\ UNCHANGED <<polylineGeometryInstances, releaseGeometryInstances, primitive,
                   primitiveOptions, batchTable, ready, readyFired, syncVars,
                   destroyed, pc, loopIndex, polylineSegmentInstances, lastCall,
                   callVars>>

\* the getter's packing (lines 294-302) of the converted value into an
\* attribute of the raw array's arity
codecPack ==
    /\ codecResult.stage = "converted"
    /\ codecResult.value.tag = "value"
    /\ codecResult' =
          [codecResult EXCEPT
             !.stage = "packed",
             !.out = pack([componentDatatype |-> codecValue.componentDatatype,
                           componentsPerAttribute |-> Len(codecValue.raw)],
                          codecResult.value.v)]
    /\ UNCHANGED streamVars
    /\ UNCHANGED <<codecValue, writers, readyPromise>>
    /\ UNCHANGED <<polylineGeometryInstances, releaseGeometryInstances, primitive,
                   primitiveOptions, batchTable, ready, readyFired, syncVars,
                   destroyed, pc, loopIndex, polylineSegmentInstances, lastCall,
                   callVars>>

\* ------------------------------------------- set functions run side by side
\* values the two setters are given
WriterValues == <<Array(<<7>>), Array(<<9>>)>>

\* a set function (lines 278-288) applied to value, about to start its loop
Writer(synchronizer, name, value) ==
    [id |-> synchronizer.id,
     firstInstanceIndex |-> synchronizer.firstInstanceIndex,
     lastInstanceIndex |-> synchronizer.lastInstanceIndex,
     attributeIndex |-> batchTableAttributeIndices[name],
     value |-> value,
     i |-> setLoopStart(synchronizer.firstInstanceIndex)]

\* two setters of different ids are called with accepted values; base is
\* the batch table they start from
setBegin(s1, s2, name1, name2) ==
    /\ pc = "idle" /\ ~destroyed
    /\ primitive = "batched"
    /\ writers = NoWriters
    /\ s1.id # s2.id
    /\ name1 \in s1.properties /\ name2 \in s2.properties
    /\ ~invalidValue(WriterValues[1]) /\ ~invalidValue(WriterValues[2])
    /\ writers' = [base |-> batchTable,
                   w |-> <<Writer(s1, name1, WriterValues[1]),
                           Writer(s2, name2, WriterValues[2])>>]
    /\ UNCHANGED streamVars
    /\ UNCHANGED <<codecVars, readyPromise>>
    /\ UNCHANGED <<polylineGeometryInstances, releaseGeometryInstances, primitive,
                   primitiveOptions, batchTable, ready, readyFired, syncVars,
                   destroyed, pc, loopIndex, polylineSegmentInstances, lastCall,
                   callVars>>

\* one pass of the loop body (lines 285-286) of setter k
setStep(k) ==
    /\ k \in DOMAIN writers.w
    /\ writers.w[k].i <= writers.w[k].lastInstanceIndex
    /\ LET w == writers.w[k]
           r == setLoop(batchTable, w.i, w.i, w.attributeIndex, w.value.c)
       IN /\ batchTable' = r.table
          /\ writers' = [writers EXCEPT !.w[k].i =
                            IF r.tag = "throw" THEN w.lastInstanceIndex + 1
                            ELSE w.i + 1]
    /\ UNCHANGED streamVars
    /\ UNCHANGED <<codecVars, readyPromise>>
    /\ UNCHANGED <<polylineGeometryInstances, releaseGeometryInstances, primitive,
                   primitiveOptions, ready, readyFired, syncVars, destroyed, pc,
                   loopIndex, polylineSegmentInstances, lastCall, callVars>>

\* ------------------------------------------------------- PointCloudStream
\* keys addFrame may be given: the slots 0 .. MaxFrames-1 and a negative one
FrameKeys == (-1)..(MaxFrames - 1)

\* values a caller may assign to stream.index
IndexValues == (-1)..(MaxFrames + 1)

\* frameState.time
Times == 0..MaxTime

\* frameState.mode
SceneModes == {"MORPHING", "SCENE3D"}

\* new PointCloud(...), lines 139-143: no parameter forwarded yet (its time
\* is <<>>)
PointCloud == [time |-> <<>>]

\* frames.length: one above the largest array index assigned
framesLength(f) ==
    IF DOMAIN f \cap Nat = {} THEN 0
    ELSE 1 + CHOOSE m \in DOMAIN f \cap Nat : \A k \in DOMAIN f \cap Nat : k <= m

\* as indexNotInRange, without the test for a negative index
indexAboveRange(i, length) == i > length

\* line 162
indexNotInRange(i, length) == i < 0 \/ i > length

\* line 182: Math.max(secondsDifference(time, loadTimestamp) * 1000, 0.0)
timeSinceLoad(time, timestamp) ==
    IF (time - timestamp) * 1000 > 0 THEN (time - timestamp) * 1000 ELSE 0

\* a call of the stream and the keys of the frames it forwarded its
\* parameters to and updated
NoStreamCall == [op |-> "none", mode |-> "", updated |-> {}]

\* lines 138-144
addFrame(i) ==
    /\ frames' = Assign(frames, i, PointCloud)
    /\ lastStream' = [NoStreamCall EXCEPT !.op = "addFrame"]
    /\ UNCHANGED <<show, index, pickId, loadTimestamp, pickIdsCreated>>
    /\ UNCHANGED <<codecVars, writers, readyPromise>>
    /\ UNCHANGED <<polylineGeometryInstances, releaseGeometryInstances, primitive,
                   primitiveOptions, batchTable, ready, readyFired, syncVars,
                   destroyed, pc, loopIndex, polylineSegmentInstances, lastCall,
                   callVars>>

\* stream.show = value
setShow(value) ==
    /\ show' = value
    /\ UNCHANGED <<index, frames, pickId, loadTimestamp, pickIdsCreated, lastStream>>
    /\ UNCHANGED <<codecVars, writers, readyPromise>>
    /\ UNCHANGED <<polylineGeometryInstances, releaseGeometryInstances, primitive,
                   primitiveOptions, batchTable, ready, readyFired, syncVars,
                   destroyed, pc, loopIndex, polylineSegmentInstances, lastCall,
                   callVars>>

\* stream.index = value
setIndex(value) ==
    /\ index' = value
    /\ UNCHANGED <<show, frames, pickId, loadTimestamp, pickIdsCreated, lastStream>>
    /\ UNCHANGED <<codecVars, writers, readyPromise>>
    /\ UNCHANGED <<polylineGeometryInstances, releaseGeometryInstances, primitive,
                   primitiveOptions, batchTable, ready, readyFired, syncVars,
                   destroyed, pc, loopIndex, polylineSegmentInstances, lastCall,
                   callVars>>

\* lines 146-227, with frameState.mode and frameState.time
streamUpdate(mode, time) ==
    /\ IF \/ mode = "MORPHING"
          \/ ~show
          \/ framesLength(frames) = 0
          \/ indexNotInRange(index, framesLength(frames))
          \/ index \notin DOMAIN frames
       THEN /\ lastStream' = [op |-> "update", mode |-> mode, updated |-> {}]
            /\ UNCHANGED <<frames, pickId, loadTimestamp, pickIdsCreated>>
       ELSE LET timestamp == IF loadTimestamp = <<>> THEN time
                             ELSE loadTimestamp[1]
            IN /\ pickId' = "pickId"
               /\ pickIdsCreated' =
                     IF pickId = "undefined" THEN pickIdsCreated + 1
                     ELSE pickIdsCreated
               /\ loadTimestamp' = <<timestamp>>
               /\ frames' = [frames EXCEPT
                                ![index].time = <<timeSinceLoad(time, timestamp)>>]
               /\ lastStream' = [op |-> "update", mode |-> mode, updated |-> {index}]
    /\ UNCHANGED <<show, index>>
    /\ UNCHANGED <<codecVars, writers, readyPromise>>
    /\ UNCHANGED <<polylineGeometryInstances, releaseGeometryInstances, primitive,
                   primitiveOptions, batchTable, ready, readyFired, syncVars,
                   destroyed, pc, loopIndex, polylineSegmentInstances, lastCall,
                   callVars>>

\* ------------------------------------------------------- specifications
InitOther ==
    /\ releaseGeometryInstances \in BOOLEAN
    /\ primitive = "undefined"
    /\ primitiveOptions = <<>>
    /\ batchTable = EmptyObject
    /\ ready = FALSE
    /\ readyFired = FALSE
    /\ idsToInstanceIndices = EmptyObject
    /\ attributeSynchronizerCache = EmptyObject
    /\ destroyed = FALSE
    /\ pc = "idle"
    /\ loopIndex = 0
    /\ polylineSegmentInstances = <<>>
    /\ lastCall = NoCall
    /\ setCalls = 0
    /\ constructed = [id \in Ids |-> 0]
    /\ handedOut = [id \in Ids |-> {}]
    /\ readyPromise = "undefined"
    /\ writers = NoWriters

\* the codec is not exercised
InitCodecIdle ==
    /\ codecValue = [raw |-> <<>>, componentDatatype |-> "FLOAT"]
    /\ codecResult = NoCodecResult

\* PointCloudStream, lines 105-120
InitStream ==
    /\ show = TRUE
    /\ index = 0
    /\ frames = EmptyObject
    /\ pickId = "undefined"
    /\ loadTimestamp = <<>>
    /\ pickIdsCreated = 0
    /\ lastStream = NoStreamCall

Init ==
    /\ polylineGeometryInstances \in
          {[defined |-> FALSE, list |-> <<>>]}
          \cup {[defined |-> TRUE, list |-> l] : l \in ListsOf(PlainLines)}
    /\ InitOther
    /\ InitCodecIdle
    /\ InitStream

Next ==
    \/ updateReturn
    \/ updateBegin
    \/ updateDecompose
    \/ updateCreate
    \/ updateForward
    \/ readyCallback
    \/ destroy
    \/ \E id \in QueryIds \cup {UndefinedId} : getGeometryInstanceAttributes(id)
    \/ \E s \in HeldSynchronizers, name \in AttributeNames, value \in SetValues :
          set(s, name, value)
    \/ \E s \in HeldSynchronizers, name \in AttributeNames : get(s, name)

Spec == Init /\ [][Next]_vars

\* decomposition alone, over one detailed line, alone or after a plain line
DetailedLists ==
    {<<r>> : r \in DetailedLines}
    \cup {<<p, r>> : p \in {q \in PlainLines : q.id = "a" /\ q.wall # WallFails},
                     r \in DetailedLines}

InitDecompose ==
    /\ polylineGeometryInstances \in
          {[defined |-> TRUE, list |-> l] : l \in DetailedLists}
    /\ InitOther
    /\ InitCodecIdle
    /\ InitStream

NextDecompose == updateBegin \/ updateDecompose \/ updateCreate

SpecDecompose == InitDecompose /\ [][NextDecompose]_vars

\* the codec alone, over every raw array
InitCodec ==
    /\ polylineGeometryInstances = [defined |-> FALSE, list |-> <<>>]
    /\ InitOther
    /\ codecValue \in CodecInputs
    /\ codecResult = NoCodecResult
    /\ InitStream

NextCodec == codecConvert \/ codecPack

SpecCodec == InitCodec /\ [][NextCodec]_vars

\* two setters of different ids running their loops in any interleaving
InitInterleave ==
    /\ polylineGeometryInstances \in
          {[defined |-> TRUE, list |-> l] : l \in ListsOf(PlainLines) \ {<<>>}}
    /\ InitOther
    /\ InitCodecIdle
    /\ InitStream

NextInterleave ==
    \/ updateBegin
    \/ updateDecompose
    \/ updateCreate
    \/ updateForward
    \/ \E id \in Ids : getGeometryInstanceAttributes(id)
    \/ \E s1 \in handedOut["a"], s2 \in handedOut["b"],
          name1 \in AttributeNames, name2 \in AttributeNames :
          setBegin(s1, s2, name1, name2)
    \/ \E k \in {1, 2} : setStep(k)

SpecInterleave == InitInterleave /\ [][NextInterleave]_vars

\* the stream alone
InitStreaming ==
    /\ polylineGeometryInstances = [defined |-> FALSE, list |-> <<>>]
    /\ InitOther
    /\ InitCodecIdle
    /\ InitStream

NextStreaming ==
    \/ \E i \in FrameKeys : addFrame(i)
    \/ \E value \in BOOLEAN : setShow(value)
    \/ \E value \in IndexValues : setIndex(value)
    \/ \E mode \in SceneModes, time \in Times : streamUpdate(mode, time)

SpecStreaming == InitStreaming /\ [][NextStreaming]_vars

\* ------------------------------------------------------------------ claims
\* the range the index holds for a registered id
First(id) == idsToInstanceIndices[id][1]
Last(id) == idsToInstanceIndices[id][2]

\* the values a setter accepts: arrays of 1 to 4 components
ValidSetValues == {v \in SetValues : ~invalidValue(v)}

\* the segments made so far: while decomposing the local array, afterwards
\* the array handed to the Primitive
SegmentsNow ==
    IF pc = "decomposing" THEN polylineSegmentInstances ELSE primitiveOptions

\* no segment handed to the batch carries the id
NoSegments(id) == \A j \in DOMAIN primitiveOptions : primitiveOptions[j].id # id

\* C1: after Set(name, v) with a valid v of 1 to 4 components through the
\* synchronizer of an id registered with range [a,b], Get(name) returns v
\* and the batch table holds v at (i, attributeIndex(name)) for every i in
\* a..b.  Stated for the case the claim is surely about: a range that holds
\* at least one segment and a value of the attribute's declared arity.
C1_Uniformity ==
    [][\A s \in HeldSynchronizers, name \in AttributeNames, value \in ValidSetValues :
          (/\ set(s, name, value)
           /\ First(s.id) <= Last(s.id)
           /\ Len(value.c) = BatchTableAttributes[name].componentsPerAttribute)
          => LET a == batchTableAttributeIndices[name] IN
             /\ createGetFunction(batchTable', First(s.id), a) =
                    [tag |-> "value", out |-> value.c]
             /\ \A i \in First(s.id)..Last(s.id) :
                    /\ i \in DOMAIN batchTable'
                    /\ batchTable'[i][a].c = value.c]_vars

\* what a Set through synchronizer s on attribute name may not change
SetFrame(s, name) ==
    /\ idsToInstanceIndices' = idsToInstanceIndices
    /\ attributeSynchronizerCache' = attributeSynchronizerCache
    /\ primitiveOptions' = primitiveOptions
    /\ \/ batchTable' = batchTable
       \/ /\ DOMAIN batchTable' = DOMAIN batchTable
          /\ \A i \in DOMAIN batchTable, a \in AttributeIndices :
                (i \notin First(s.id)..Last(s.id)
                 \/ a # batchTableAttributeIndices[name])
                => batchTable'[i][a] = batchTable[i][a]

\* C2: Set(name, v) on an id with range [a,b] leaves unchanged every batch
\* table slot whose segment index is outside a..b and every slot of another
\* attribute, and changes neither the id -> range index, the synchronizer
\* cache nor the segment sequence.
C2_SetFrame ==
    [][setCalls' # setCalls =>
          \A s \in HeldSynchronizers, name \in AttributeNames :
             SetFrame(s, name) \/ \A value \in SetValues : ~set(s, name, value)]_vars

\* a Set has written the range of one id while a sibling id owns segments too
C2_Witness ==
    /\ lastCall.op = "set" /\ lastCall.ret = "return"
    /\ \E x \in DOMAIN idsToInstanceIndices, y \in DOMAIN idsToInstanceIndices :
          /\ x # y
          /\ First(x) < Last(x) /\ First(y) < Last(y)
          /\ First(y) > 0
          /\ \E a \in AttributeIndices :
                /\ \A i \in First(y)..Last(y) : batchTable[i][a] = Number(7)
                /\ \A i \in First(x)..Last(x) : batchTable[i][a] # Number(7)

\* C3: after decomposition every id in the index maps to a range [first,last]
\* with first <= last, and the ranges of two distinct ids share no index.
C3_RangesValid ==
    pc = "idle" =>
       \A x \in DOMAIN idsToInstanceIndices :
          /\ First(x) <= Last(x)
          /\ \A y \in DOMAIN idsToInstanceIndices \ {x} :
                (First(x)..Last(x)) \cap (First(y)..Last(y)) = {}

\* C4: once the batch is built, getGeometryInstanceAttributes(id) returns
\* undefined, without an exception, for every id that produced no segments.
C4_AbsentWithoutSegments ==
    (/\ lastCall.op = "getGeometryInstanceAttributes"
     /\ lastCall.id \in QueryIds
     /\ primitive = "batched"
     /\ NoSegments(lastCall.id))
    => lastCall.ret = "undefined"

\* C5: getGeometryInstanceAttributes(id) called before the batch exists
\* throws for every id and leaves the id -> range index and the
\* synchronizer cache unchanged.
C5_BeforeBatch ==
    [][\A id \in QueryIds \cup {UndefinedId} :
          \/ primitive = "batched"
          \/ /\ lastCall'.ret = "throw"
             /\ idsToInstanceIndices' = idsToInstanceIndices
             /\ attributeSynchronizerCache' = attributeSynchronizerCache
             /\ handedOut' = handedOut
          \/ ~getGeometryInstanceAttributes(id)]_vars

\* a registered id was asked for while the Primitive had no batch table yet
C5_Witness ==
    /\ lastCall.op = "getGeometryInstanceAttributes"
    /\ lastCall.ret = "throw"
    /\ lastCall.id \in DOMAIN idsToInstanceIndices
    /\ primitive = "created"

\* C6: while the primitive is alive, every call of
\* getGeometryInstanceAttributes(id) for a registered id returns the same
\* synchronizer instance, whatever calls lie between; a synchronizer is
\* constructed at most once per id.
C6_SameSynchronizer ==
    \A id \in Ids :
       /\ Cardinality(handedOut[id]) <= 1
       /\ constructed[id] <= 1
       /\ (~destroyed /\ handedOut[id] # {}) =>
             /\ id \in DOMAIN attributeSynchronizerCache
             /\ handedOut[id] = {attributeSynchronizerCache[id]}

\* a second call returned the cached synchronizer after a Set was made
C6_Witness ==
    /\ lastCall.op = "getGeometryInstanceAttributes"
    /\ lastCall.ret = "synchronizer" /\ lastCall.hit
    /\ setCalls > 0
    /\ batchTable # createBatchTable(primitiveOptions)

\* the number of segments (verticesLength - 3) / 3 of a wall of
\* verticesLength entries, none below two triples
ExpectedSegments(verticesLength) ==
    IF verticesLength < 6 THEN 0 ELSE (verticesLength - 3) \div 3

\* C7: decomposing one line whose wall has verticesLength entries appends
\* exactly (verticesLength - 3) / 3 segments, and none when the wall has
\* fewer than two triples.
C7_SegmentCount ==
    [][updateDecompose =>
          LET line == polylineGeometryInstances.list[loopIndex] IN
          line.wall # WallFails =>
             /\ Len(polylineSegmentInstances') =
                   Len(polylineSegmentInstances) + ExpectedSegments(line.wall)
             /\ SubSeq(polylineSegmentInstances', 1, Len(polylineSegmentInstances))
                   = polylineSegmentInstances]_vars

\* the second line of a list, of three triples, has been decomposed
C7_Witness ==
    /\ pc = "decomposing" /\ loopIndex = 3
    /\ polylineGeometryInstances.list[2].wall = 9
    /\ Len(polylineSegmentInstances) >= 3

\* consecutive segments j, j+1 of the same line
SameLine(segs, j) ==
    j + 1 \in DOMAIN segs /\ segs[j].geometry.line = segs[j + 1].geometry.line

\* segment j is the first of its line
FirstOfLine(segs, j) == j = 1 \/ ~SameLine(segs, j - 1)

C9_RangeImmutable ==
    [][\A id \in DOMAIN idsToInstanceIndices :
          ~destroyed' =>
             /\ id \in DOMAIN idsToInstanceIndices'
             /\ idsToInstanceIndices'[id] = idsToInstanceIndices[id]]_vars

\* the segments of the list's line k among those handed to the batch
SegmentsOfLine(k) ==
    {j \in DOMAIN primitiveOptions : primitiveOptions[j].geometry.line = k}

\* C10: when a line of the list is invalid, that line alone is skipped:
\* every other line is decomposed, registered in the index and handed to
\* the batch.
C10_PartialFailure ==
    (/\ pc = "idle" /\ lastCall.op = "update"
     /\ polylineGeometryInstances.defined)
    => \A k \in DOMAIN polylineGeometryInstances.list :
          LET line == polylineGeometryInstances.list[k] IN
          line.wall # WallFails =>
             /\ line.id \in DOMAIN idsToInstanceIndices
             /\ primitive # "undefined"
             /\ Cardinality(SegmentsOfLine(k)) = LoopCount(0, line.wall)

\* values the claim wants rejected: undefined, without a length, or with a
\* length outside 1..4
RejectedSetValues ==
    {v \in SetValues : v.kind # "array" \/ Len(v.c) < 1 \/ Len(v.c) > 4}

\* C11: Set(name, value) with a value that is undefined, has no length or has
\* a length outside 1..4 throws, and the batch table after the call is the
\* batch table before it at every (segment index, attribute index).
C11_RejectedSetWritesNothing ==
    [][setCalls' # setCalls =>
          \A s \in HeldSynchronizers, name \in AttributeNames,
             value \in RejectedSetValues :
                \/ lastCall'.ret = "throw" /\ batchTable' = batchTable
                \/ ~set(s, name, value)]_vars

\* a 5-component array was given to the setter of the one synchronizer held,
\* whose range holds two segments or more
C11_Witness ==
    /\ lastCall.op = "set" /\ lastCall.ret = "throw"
    /\ lastCall.arg = <<Array(<<1, 2, 3, 4, 5>>)>>
    /\ Cardinality(HeldSynchronizers) = 1
    /\ \A s \in HeldSynchronizers : s.firstInstanceIndex < s.lastInstanceIndex

\* the derived distance metrics
MetricNames == {"startDistance", "segmentLength", "totalLength"}

\* C12: no operation of a synchronizer's attribute surface changes the
\* stored value of a distance metric (start-distance, segment-length,
\* total-line-length) at any segment.
C12_MetricsReadOnly ==
    [][setCalls' # setCalls =>
          \A i \in DOMAIN batchTable \cap DOMAIN batchTable', name \in MetricNames :
             batchTable'[i][batchTableAttributeIndices[name]]
                = batchTable[i][batchTableAttributeIndices[name]]]_vars

\* what reading the attribute back from its typed array gives
Decoded(attribute) == typedArrayStore(attribute.componentDatatype, attribute.value[1])

\* the line a segment was made from
LineOf(segment) == polylineGeometryInstances.list[segment.geometry.line]

\* the shape of the width attribute of every segment
WidthShape(segment) ==
    /\ segment.width.componentsPerAttribute = 1
    /\ ~segment.width.normalize
    /\ Len(segment.width.value) = 1

\* C13 (as amended): every segment carries a 1-component, non-normalized
\* width attribute, and its stored value decodes to the line's width when
\* the width is an integer an unsigned byte holds (0 .. 255).
C13_WidthWithinByte ==
    \A j \in DOMAIN SegmentsNow :
       LET segment == SegmentsNow[j] IN
       /\ WidthShape(segment)
       /\ LineOf(segment).width \in 0..(UnsignedByteRange - 1)
             => Decoded(segment.width) = LineOf(segment).width

\* C13 (as claimed): the stored value decodes to the line's width for every
\* positive width.
C13_WidthExact ==
    \A j \in DOMAIN SegmentsNow :
       LET segment == SegmentsNow[j] IN
       /\ WidthShape(segment)
       /\ LineOf(segment).width > 0
             => Decoded(segment.width) = LineOf(segment).width

\* a line of width 2 has been decomposed into two segments or more
C13_Witness ==
    /\ pc = "idle" /\ primitive # "undefined"
    /\ \E j \in DOMAIN primitiveOptions :
          /\ SameLine(primitiveOptions, j)
          /\ LineOf(primitiveOptions[j]).width = 2
          /\ Decoded(primitiveOptions[j].width) = 2
          /\ Decoded(primitiveOptions[j + 1].width) = 2

\* every component of the raw array is one the component type holds
Representable(input) ==
    \A j \in DOMAIN input.raw :
       typedArrayStore(input.componentDatatype, input.raw[j]) = input.raw[j]

\* C14: for every representable raw array of 1 to 4 components, the
\* setter's conversion yields a value, and the getter's packing of that
\* value into an attribute of the same arity yields the same components in
\* the same order.
C14_RoundTrip ==
    (Len(codecValue.raw) \in 1..4 /\ Representable(codecValue)) =>
       /\ codecResult.stage = "converted" => codecResult.value.tag = "value"
       /\ codecResult.stage = "packed" => codecResult.out = codecValue.raw

\* C15: the codec given a raw array whose length is outside 1..4 fails with
\* an error; it never returns a value or undefined.
C15_UnsupportedArity ==
    (codecResult.stage = "converted" /\ Len(codecValue.raw) \notin 1..4)
    => codecResult.value.tag = "throw"

\* the slots setter w writes
WriterSlots(w) ==
    {<<i, w.attributeIndex>> : i \in w.firstInstanceIndex..w.lastInstanceIndex}

\* setter w run from start to end on table
RunWriter(table, w) ==
    createSetFunction(table, w.firstInstanceIndex, w.lastInstanceIndex,
                      w.attributeIndex, w.value).table

WritersDone ==
    /\ writers # NoWriters
    /\ \A k \in DOMAIN writers.w : writers.w[k].i > writers.w[k].lastInstanceIndex

\* C16: the setters of two different registered ids write disjoint sets of
\* slots, and when both have run their loops, in whatever interleaving of
\* the single writes, the batch table is the one that running them one
\* after the other gives, in either order.
C16_Interleaving ==
    writers # NoWriters =>
       LET w1 == writers.w[1]
           w2 == writers.w[2]
       IN /\ WriterSlots(w1) \cap WriterSlots(w2) = {}
          /\ WritersDone =>
                /\ batchTable = RunWriter(RunWriter(writers.base, w1), w2)
                /\ batchTable = RunWriter(RunWriter(writers.base, w2), w1)

\* two setters of the same attribute, each over two segments or more, have
\* both run to their end
C16_Witness ==
    /\ WritersDone
    /\ writers.w[1].attributeIndex = writers.w[2].attributeIndex
    /\ \A k \in {1, 2} :
          /\ writers.w[k].firstInstanceIndex < writers.w[k].lastInstanceIndex
          /\ \A i \in writers.w[k].firstInstanceIndex..writers.w[k].lastInstanceIndex :
                batchTable[i][writers.w[k].attributeIndex].c = writers.w[k].value.c

\* the indices (0-based) of the segments tagged with the id
TaggedWith(id) ==
    {j - 1 : j \in {n \in DOMAIN primitiveOptions : primitiveOptions[n].id = id}}

\* C17: after decomposition, for every registered id X with range
\* [first,last], the segments tagged X are exactly those at first..last.
C17_TagsMatchRange ==
    (pc = "idle" /\ primitive # "undefined") =>
       \A x \in DOMAIN idsToInstanceIndices : TaggedWith(x) = First(x)..Last(x)

C19_ReleaseAndReadiness ==
    /\ (primitive # "undefined" /\ ~polylineGeometryInstances.defined)
          => readyFired /\ releaseGeometryInstances
    /\ readyFired => ready /\ readyPromise \in {"resolved", "rejected"}

\* segment index i belongs to the line(s) of the synchronizer's id
Owns(s, i) ==
    /\ i + 1 \in DOMAIN primitiveOptions
    /\ primitiveOptions[i + 1].id = s.id

\* C20: the segment index a synchronizer's Get reads and every segment
\* index its Set writes is the index of a segment tagged with the
\* synchronizer's id.
C20_OwnSegmentsOnly ==
    [][lastCall'.op \in {"get", "set"} =>
          \A s \in HeldSynchronizers, name \in AttributeNames :
             /\ get(s, name) => Owns(s, s.firstInstanceIndex)
             /\ (\E value \in SetValues : set(s, name, value)) =>
                   \A i \in s.firstInstanceIndex..s.lastInstanceIndex : Owns(s, i)]_vars

\* what no update changes once the Primitive exists
BatchKept ==
    /\ primitive' # "undefined"
    /\ pc' = "idle"
    /\ idsToInstanceIndices' = idsToInstanceIndices
    /\ primitiveOptions' = primitiveOptions

StreamSkips(mode) ==
    \/ mode = "MORPHING"
    \/ ~show
    \/ DOMAIN frames = {}
    \/ index < 0
    \/ ~\E k \in DOMAIN frames : k >= index
    \/ index \notin DOMAIN frames

\* C22: an update of the stream forwards parameters to, and updates, at most
\* one frame, the one stored at the current index; a call the stream must
\* not act on updates no frame, allocates no pick id and sets no load
\* timestamp; the pick id is allocated at most once and the load timestamp,
\* once set, never changes.
C22_StreamUpdate ==
    [][/\ pickIdsCreated' <= 1
       /\ loadTimestamp # <<>> => loadTimestamp' = loadTimestamp
       /\ \A mode \in SceneModes, time \in Times :
             streamUpdate(mode, time) =>
                /\ lastStream'.updated \subseteq {index}
                /\ \A k \in DOMAIN frames \ {index} : frames'[k] = frames[k]
                /\ StreamSkips(mode) =>
                      /\ lastStream'.updated = {}
                      /\ UNCHANGED <<frames, pickId, pickIdsCreated,
                                     loadTimestamp>>]_vars

\* the frame at index 1 was updated one second after the load timestamp,
\* the frame at index 0 having been updated before
C22_Witness ==
    /\ lastStream.op = "update" /\ lastStream.updated = {1}
    /\ 0 \in DOMAIN frames /\ 1 \in DOMAIN frames
    /\ frames[0].time # <<>>
    /\ frames[1].time = <<1000>>
    /\ loadTimestamp = <<0>>
    /\ pickIdsCreated = 1

====
